---- MODULE Spec2Model ----
(***************************************************************************)
(* Model of the admission-control layer of acmon-rust.                     *)
(*                                                                         *)
(*   Gate part   (src/limiter.rs):  OwnedMutex, OwnedMutexGuard and        *)
(*                                  SlidingMemoryLimiter with its clones.  *)
(*   Store part  (src/repo/limit.rs, src/repo/etcd/limit.rs):              *)
(*                                  EtcdLimitRepo::get_limit / add_req     *)
(*                                  against an etcd key-value backend.     *)
(*                                                                         *)
(* The two parts have separate specifications (Spec, SpecRepo) over        *)
(* disjoint variables.                                                     *)
(***************************************************************************)
EXTENDS Bags, FiniteSets, Integers, Sequences, TLC

(***************************************************************************)
(* Bounds of the model.                                                    *)
(***************************************************************************)
\* clock ticks per second: Instant::elapsed() and SystemTime are finer than
\* the whole seconds the cache and the bucket key are computed from
TicksPerSec == 2
\* the gate's clock runs over 0..MaxTime ticks
MaxTime == 2
\* number of gate instances: the original and its clones
NumGates == 3
\* number of requests forwarded over a run
MaxReqs == 4

(***************************************************************************)
(* Program constants.                                                      *)
(***************************************************************************)
\* TimedSizedCache::with_size_and_lifespan(256, ...)
CacheSize == 256

Gates == 1..NumGates

\* Config { window (whole seconds, as_secs), resolution, max }
Configs ==
    { [window |-> w, resolution |-> r, max |-> m] :
        w \in {1}, r \in {1, 2}, m \in {1, 2} }

VARIABLES
    now,        \* the clock (SystemTime::now and Instant::now), in ticks
    config,     \* the Config the gate was built with
    gstate,     \* gate -> "absent" | "live" | "abandoned" | "dropped"
    guard,      \* gate -> self.guard : Option<OwnedMutexGuard>, [some, val], and
                \* ready: the inner service answered Ready(Ok) to the last poll
    wait,       \* gate -> state of the acquire future in its PollSemaphore
    last,       \* the last return of poll_ready or call: [gate, ret]
    queue,      \* the semaphore's wait queue, oldest waiter first
    permits,    \* the semaphore's free permits
    mutex,      \* Arc<Mutex<Option<TimedSizedCache>>> : [some, val]
    calls,      \* the clock values at which call forwarded a request, in order
    outcome     \* result of the future of the latest forwarded request

gvars == <<now, config, gstate, guard, wait, last, queue, permits, mutex,
           calls, outcome>>

VARIABLES
    variant,    \* which EtcdLimitRepo: "limit" (repo/limit.rs) or "etcd" (repo/etcd/limit.rs)
    max_lease,  \* EtcdLimitRepo::max_lease, in milliseconds
    rclock,     \* position of real time in ClockSeq
    offset,     \* client -> how far its node's clock runs ahead, in milliseconds
    store,      \* the etcd key space: key bytes -> [val, rkey, ts]
    rpc,        \* client -> the get_limit / add_req call in progress
    ret,        \* client -> what its last get_limit / add_req returned
    adds        \* the add_req calls that returned Ok, a bag of [c, rkey, ts]

rvars == <<variant, max_lease, rclock, offset, store, rpc, ret, adds>>

VARIABLES
    policy0,    \* the RandomAttempts held by the Retry service
    ptime,      \* the tokio clock, milliseconds
    rc          \* call -> the response future of one Retry call

pvars == <<policy0, ptime, rc>>

VARIABLES
    builder,    \* the EtcdLimitRepoBuilder: which Options are Some, and max_lease
    repo        \* what build() returned: "none" (not called), "Ok" (the repo),
                \* "ClientNotSet" or "panic"

bvars == <<builder, repo>>

VARIABLES
    cell,       \* handle -> the CloneOnceService: does its Cell hold Some(inner)
    oneshot,    \* the retry-wrapped oneshot over a handle
    cout        \* the last return of poll_ready or call on a handle

cvars == <<cell, oneshot, cout>>

vars == <<gvars, rvars, pvars, bvars, cvars>>

(***************************************************************************)
(* EtcdLimitRepo: the counts kept in etcd.  Two versions of the repo exist *)
(* in the source, repo/limit.rs ("limit") and repo/etcd/limit.rs ("etcd"). *)
(* Durations are whole milliseconds, keys are byte strings.                *)
(***************************************************************************)
MaxAdds == 2

\* the nodes that share the etcd cluster
Clients == {1, 2}

\* the skew added to `now` for the end of the range, in seconds
SkewSecsLimit == 600

SkewSecsEtcd == 60

\* `for i in 0..2`
Attempts == 2

\* u32::MAX is TwoPow16 * TwoPow16 - 1
TwoPow16 == 65536

Variants == {"limit", "etcd"}

\* max_duration() of the builder, milliseconds
MaxLeases == {500}

\* the `range` arguments get_limit is called with, milliseconds
Ranges == {500, 1000}

\* the rate-limit keys in use: "a"
RKeys == {<<97>>}

\* the instants (milliseconds since the epoch) at which clocks are read: one
\* with nine decimal digits, two with ten
ClockSeq == <<100001150, 1000001600, 1000002000>>

Skew_none(v) == 0

Skew(v) == IF v = "limit" THEN SkewSecsLimit * 1000 ELSE SkewSecsEtcd * 1000

\* T::now() on the node of client c
time_now(c) == ClockSeq[rclock] + offset[c]

\* the decimal digits of n, as format!("{}", n) prints them
RECURSIVE Digits(_)
Digits(n) == IF n < 10 THEN <<48 + n>>
             ELSE Digits(n \div 10) \o <<48 + (n % 10)>>

\* format!("limit_{}_{}", key, ms)
limit_key(key, ms) == <<108, 105, 109, 105, 116, 95>> \o key \o <<95>> \o Digits(ms)

\* byte-wise lexicographic order of Vec<u8> keys, as etcd compares them
BytesLess(a, b) ==
    \E i \in 1..(Len(a) + 1) :
        /\ i - 1 <= Len(b)
        /\ \A j \in 1..(i - 1) : a[j] = b[j]
        /\ IF i = Len(a) + 1 THEN Len(b) >= i
           ELSE i <= Len(b) /\ a[i] < b[i]

\* the keys a Get with range_end returns: key <= k < range_end
in_range(k, key, range_end) == ~BytesLess(k, key) /\ BytesLess(k, range_end)

\* Get with count_only: res.count()
range_count(s, key, range_end) ==
    Cardinality({r \in s : in_range(r.key, key, range_end)})

\* a Put that keeps a counter under the key
kv_put_counter(s, key, rkey, ts) ==
    LET old == {r \in s : r.key = key}
        n == IF old = {} THEN 0 ELSE (CHOOSE r \in old : TRUE).val[1]
    IN (s \ old) \cup {[key |-> key, val |-> <<n + 1>>, rkey |-> rkey, ts |-> ts]}

\* Put: creates the key or overwrites its value
kv_put(s, key, rkey, ts) ==
    {r \in s : r.key # key} \cup {[key |-> key, val |-> <<1>>, rkey |-> rkey, ts |-> ts]}

range_too_long_ge(range) == range >= max_lease

\* `if range > self.max_lease`
range_too_long(range) == range > max_lease

\* u32::try_from(res)
u32_try_from(res) == IF res >= 0 /\ res \div TwoPow16 < TwoPow16
                     THEN [kind |-> "Ok", val |-> res]
                     ELSE [kind |-> "CouldNotConvertEtcdCount", val |-> 0]

\* `seen` is how many add_req calls had returned Ok when the call started,
\* `answer` is what etcd answered to the call's most recent request
Idle == [pc |-> "idle", rkey |-> << >>, range |-> 0, now |-> 0,
         key |-> << >>, range_end |-> << >>, i |-> 0, seen |-> 0,
         err |-> "none", answer |-> "none"]

\* the errors the etcd client can answer a request with
Errors == {"e1", "e2"}

err_unassigned(old, new) == old

err_first(old, new) == IF old = "none" THEN new ELSE old

\* `err = match ... { Err(err) => Err(EtcdLimitRepoError::Etcd(err)) }`: the
\* error of this attempt replaces the one kept so far
err_assign(old, new) == new

NoRet == [op |-> "none", kind |-> "none", val |-> 0, range |-> 0,
          reads |-> 0, sends |-> 0, err |-> "none", answer |-> "none"]

Returned(op, kind, val, range, reads, sends) ==
    [op |-> op, kind |-> kind, val |-> val, range |-> range, err |-> "none",
     reads |-> reads, sends |-> sends, answer |-> "none"]

\* a repo right after build(), on an empty key space; node 1's clock is the
\* reference, the other nodes run with it or ahead by the skew
RInit ==
    /\ variant \in Variants
    /\ max_lease \in MaxLeases
    /\ rclock = 1
    /\ offset \in {o \in [Clients -> {0, Skew(variant)}] : o[1] = 0}
    /\ store = {}
    /\ rpc = [c \in Clients |-> Idle]
    /\ ret = NoRet
    /\ adds = EmptyBag

\* no repo in use
RQuiet ==
    /\ RInit
    /\ variant = "etcd"
    /\ offset = [c \in Clients |-> 0]

InFlightPuts == Cardinality({c \in Clients : rpc[c].pc \in {"put", "sleep"}})

get_limit(c, key, range) ==
    /\ rpc[c].pc = "idle"
    /\ IF range_too_long(range)
       THEN /\ ret' = Returned("get_limit", "RangeLongerThanMax", 0, range, 0, 0)
            /\ UNCHANGED rpc
       ELSE LET now_ == time_now(c) IN
            IF now_ < range
            THEN \* `now - range` on Durations panics
                 /\ ret' = Returned("get_limit", "panic", 0, range, 1, 0)
                 /\ UNCHANGED rpc
            ELSE /\ rpc' = [rpc EXCEPT ![c] =
                              [pc |-> "get", rkey |-> key, range |-> range,
                               now |-> now_,
                               key |-> limit_key(key, now_ - range),
                               range_end |-> limit_key(key, now_ + Skew(variant)),
                               i |-> 0, seen |-> BagCardinality(adds),
                               err |-> "none", answer |-> "none"]]
                 /\ UNCHANGED ret
    /\ UNCHANGED <<variant, max_lease, rclock, offset, store, adds>>
    /\ UNCHANGED <<gvars, pvars, bvars, cvars>>

\* a failed Get taken for an empty range
get_err_as_empty(e) == [kind |-> "Ok", err |-> "none"]

\* `Err(err) => Err(EtcdLimitRepoError::Etcd(err))?`, and `?` with #[from]
get_err(e) == [kind |-> "Etcd", err |-> e]

\* the Get completes: etcd answers with the count, or the call fails
get_response(c) ==
    /\ rpc[c].pc = "get"
    /\ \E res_ \in {"Ok"} \cup Errors :
         IF res_ = "Ok"
         THEN LET res == range_count(store, rpc[c].key, rpc[c].range_end)
                  r == u32_try_from(res)
              IN ret' = [Returned("get_limit", r.kind, r.val, rpc[c].range, 1, 1)
                           EXCEPT !.answer = res_]
         ELSE LET e == get_err(res_)
              IN ret' = [Returned("get_limit", e.kind, 0, rpc[c].range, 1, 1)
                           EXCEPT !.err = e.err, !.answer = res_]
    /\ rpc' = [rpc EXCEPT ![c] = Idle]
    /\ UNCHANGED <<variant, max_lease, rclock, offset, store, adds>>
    /\ UNCHANGED <<gvars, pvars, bvars, cvars>>

\* an attempt that keeps the clock value of the attempt before it
put_attempt_stale(c, key, i) ==
    LET now_ == IF rpc[c].pc = "sleep" THEN rpc[c].now ELSE time_now(c) IN
    [pc |-> "put", rkey |-> key, range |-> 0, now |-> now_,
     key |-> limit_key(key, now_), range_end |-> << >>, i |-> i, seen |-> 0,
     err |-> "none", answer |-> "none"]

\* one attempt: read the clock, build the key, send the Put
put_attempt(c, key, i) ==
    LET now_ == time_now(c) IN
    [pc |-> "put", rkey |-> key, range |-> 0, now |-> now_,
     key |-> limit_key(key, now_), range_end |-> << >>, i |-> i, seen |-> 0,
     err |-> "none", answer |-> "none"]

add_req(c, key) ==
    /\ rpc[c].pc = "idle"
    /\ BagCardinality(adds) + InFlightPuts < MaxAdds
    /\ rpc' = [rpc EXCEPT ![c] = put_attempt(c, key, 0)]
    /\ UNCHANGED <<variant, max_lease, rclock, offset, store, ret, adds>>
    /\ UNCHANGED <<gvars, pvars, bvars, cvars>>

\* the Put completes.  On an error repo/limit.rs sleeps and retries,
\* repo/etcd/limit.rs returns the error
put_response(c) ==
    /\ rpc[c].pc = "put"
    /\ \E res_ \in {"Ok"} \cup Errors :
         IF res_ = "Ok"
         THEN /\ store' = kv_put(store, rpc[c].key, rpc[c].rkey, rpc[c].now)
              /\ adds' = adds (+) SetToBag({[c |-> c, rkey |-> rpc[c].rkey, ts |-> rpc[c].now]})
              /\ ret' = Returned("add_req", "Ok", 0, 0, rpc[c].i + 1, rpc[c].i + 1)
              /\ rpc' = [rpc EXCEPT ![c] = Idle]
         ELSE /\ IF variant = "limit"
                 THEN /\ rpc' = [rpc EXCEPT ![c].pc = "sleep",
                                            ![c].err = err_assign(rpc[c].err, res_),
                                            ![c].answer = res_]
                      /\ UNCHANGED ret
                 ELSE /\ rpc' = [rpc EXCEPT ![c] = Idle]
                      /\ ret' = [Returned("add_req", "Etcd", 0, 0, 1, 1)
                                   EXCEPT !.err = res_]
              /\ UNCHANGED <<store, adds>>
    /\ UNCHANGED <<variant, max_lease, rclock, offset>>
    /\ UNCHANGED <<gvars, pvars, bvars, cvars>>

\* the 10 ms sleep after a failed attempt is over
add_req_wake(c) ==
    /\ rpc[c].pc = "sleep"
    /\ IF rpc[c].i + 1 < Attempts
       THEN /\ rpc' = [rpc EXCEPT ![c] =
                              [put_attempt(c, rpc[c].rkey, rpc[c].i + 1)
                                 EXCEPT !.err = rpc[c].err,
                                        !.answer = rpc[c].answer]]
            /\ UNCHANGED ret
       ELSE /\ rpc' = [rpc EXCEPT ![c] = Idle]
            \* the loop is over: `err` is returned, Ok(()) unless assigned
            /\ ret' = [Returned("add_req",
                                IF rpc[c].err = "none" THEN "Ok" ELSE "Etcd",
                                0, 0, rpc[c].i + 1, rpc[c].i + 1)
                         EXCEPT !.err = rpc[c].err]
    /\ UNCHANGED <<variant, max_lease, rclock, offset, store, adds>>
    /\ UNCHANGED <<gvars, pvars, bvars, cvars>>

(***************************************************************************)
(* The admission gate over the distributed count store (protocol of the    *)
(* specification: check with get_limit, reject at count >= max, otherwise  *)
(* forward one request and record it with add_req).                        *)
(***************************************************************************)
\* the configured maximum of the gate
GateMax == 2

\* the count arrives and the gate decides: admitted requests are forwarded
\* and their add_req is issued, rejected ones and errors leave the gate idle
gate_decide(c) ==
    /\ rpc[c].pc = "get"
    /\ \E res_ \in {"Ok"} \cup Errors :
         IF res_ = "Ok"
         THEN LET res == range_count(store, rpc[c].key, rpc[c].range_end)
                  r == u32_try_from(res)
              IN IF r.kind = "Ok" /\ r.val < GateMax
                 THEN /\ BagCardinality(adds) + InFlightPuts <= MaxAdds
                      /\ ret' = Returned("get_limit", "Ok", r.val, rpc[c].range, 1, 1)
                      /\ rpc' = [rpc EXCEPT ![c] = put_attempt(c, rpc[c].rkey, 0)]
                 ELSE /\ ret' = Returned("get_limit",
                                         IF r.kind = "Ok" THEN "RateLimited" ELSE r.kind,
                                         r.val, rpc[c].range, 1, 1)
                      /\ rpc' = [rpc EXCEPT ![c] = Idle]
         ELSE /\ ret' = [Returned("get_limit", get_err(res_).kind, 0,
                                    rpc[c].range, 1, 1)
                           EXCEPT !.err = get_err(res_).err, !.answer = res_]
              /\ rpc' = [rpc EXCEPT ![c] = Idle]
    /\ UNCHANGED <<variant, max_lease, rclock, offset, store, adds>>
    /\ UNCHANGED <<gvars, pvars, bvars, cvars>>

rtick ==
    /\ rclock < Len(ClockSeq)
    /\ rclock' = rclock + 1
    /\ UNCHANGED <<variant, max_lease, offset, store, rpc, ret, adds>>
    /\ UNCHANGED <<gvars, pvars, bvars, cvars>>

None == [some |-> FALSE, val |-> << >>, ready |-> FALSE]
Some(v) == [some |-> TRUE, val |-> v, ready |-> FALSE]

(***************************************************************************)
(* TimedSizedCache<u64, u16>: a sequence of entries, most recently used    *)
(* first; an entry is (key, (Instant, value)).                             *)
(***************************************************************************)
entry_valid_forever(e, t) == TRUE

\* stamped.0.elapsed().as_secs() < max_seconds
entry_valid(e, t) == ((t - e.stamp) \div TicksPerSec) < config.window

RECURSIVE SumValid(_, _)
SumValid(c, t) ==
    IF c = << >> THEN 0
    ELSE (IF entry_valid(Head(c), t) THEN Head(c).val ELSE 0) + SumValid(Tail(c), t)

\* guard.value_order().map(|val| val.1).sum(): expired entries are left out
value_order_sum(c, t) == SumValid(c, t)

IndexOf(c, k) == { i \in 1..Len(c) : c[i].key = k }

Without(c, i) == SubSeq(c, 1, i - 1) \o SubSeq(c, i + 1, Len(c))

\* guard.cache_get_or_set_with(key, || 0): the entry of key moves to the front;
\* an expired entry is replaced by a fresh (Instant::now(), 0); a missing one
\* is inserted, the least recently used entry leaving a full cache
cache_get_or_set_with(c, k, t) ==
    IF IndexOf(c, k) # {}
    THEN LET i == CHOOSE j \in IndexOf(c, k) : TRUE
             e == IF entry_valid(c[i], t) THEN c[i]
                  ELSE [key |-> k, stamp |-> t, val |-> 0]
         IN  <<e>> \o Without(c, i)
    ELSE LET kept == IF Len(c) >= CacheSize THEN SubSeq(c, 1, Len(c) - 1) ELSE c
         IN  <<[key |-> k, stamp |-> t, val |-> 0]>> \o kept

bucket_incr_twice(c) == <<[c[1] EXCEPT !.val = @ + 2]>> \o Tail(c)

bucket_set_one(c) == <<[c[1] EXCEPT !.val = 1]>> \o Tail(c)

\* *bucket += 1  on the entry cache_get_or_set_with returned
bucket_incr(c) == <<[c[1] EXCEPT !.val = @ + 1]>> \o Tail(c)

\* as_secs() / self.config.resolution as u64
current_min(t) == (t \div TicksPerSec) \div config.resolution

(***************************************************************************)
(* The semaphore of OwnedMutex (tokio Semaphore::new(1), fair): a released *)
(* permit goes to the oldest queued waiter, else back to the semaphore.    *)
(***************************************************************************)
\* drop(OwnedSemaphorePermit)
ReleasePermit(w, q, p) ==
    IF q # << >>
    THEN [wait |-> [w EXCEPT ![Head(q)] = "assigned"], queue |-> Tail(q), permits |-> p]
    ELSE [wait |-> w, queue |-> q, permits |-> p + 1]

\* a dropped acquire future that stays in the wait queue
RemoveFrom_keep(q, g) == q

RemoveFrom(q, g) == SelectSeq(q, LAMBDA x : x # g)

\* a guard that counts one use in the newest bucket whenever it is dropped
guard_drop_counts(d) ==
    Some(IF d.val = << >> THEN d.val
         ELSE <<[d.val[1] EXCEPT !.val = @ + 1]>> \o Tail(d.val))

\* a guard whose drop does not put the value back
guard_drop_takes(d) == None

\* a guard whose drop leaves an empty map behind
guard_drop_forgets(d) == Some(<< >>)

\* Drop for OwnedMutexGuard: *self.mutex.lock() = self.data.take()
guard_drop(d) == Some(d.val)

\* SlidingMemoryLimiter::new: an empty cache in a fresh OwnedMutex, guard: None
\* SlidingMemoryLimiter::new(service, config)
new(cfg) ==
    /\ now = 0
    /\ config = cfg
    /\ gstate = [g \in Gates |-> IF g = 1 THEN "live" ELSE "absent"]
    /\ guard = [g \in Gates |-> None]
    /\ wait = [g \in Gates |-> "none"]
    /\ last = [gate |-> 0, ret |-> "none"]
    /\ queue = << >>
    /\ permits = 1
    /\ mutex = Some(<< >>)
    /\ calls = << >>
    /\ outcome = "none"

GInit == \E cfg \in Configs : new(cfg)

(***************************************************************************)
(* OwnedMutex::poll_lock, first half: self.semaphore.poll_acquire(cx).     *)
(* An acquire future that was handed the permit while queued is ready; a   *)
(* fresh one takes a free permit or joins the queue; a queued one stays    *)
(* pending.                                                                *)
(***************************************************************************)
\* an acquire that does not look at the number of free permits
poll_acquire_barging(g) ==
    IF wait[g] \in {"assigned", "none"}
    THEN [ready |-> TRUE, wait |-> [wait EXCEPT ![g] = "none"],
          queue |-> queue, permits |-> IF permits > 0 THEN permits - 1 ELSE 0]
    ELSE [ready |-> FALSE, wait |-> wait, queue |-> queue, permits |-> permits]

poll_acquire(g) ==
    CASE wait[g] = "assigned" ->
            [ready |-> TRUE, wait |-> [wait EXCEPT ![g] = "none"],
             queue |-> queue, permits |-> permits]
      [] wait[g] = "none" /\ permits > 0 ->
            [ready |-> TRUE, wait |-> wait, queue |-> queue, permits |-> permits - 1]
      [] wait[g] = "none" /\ permits = 0 ->
            [ready |-> FALSE, wait |-> [wait EXCEPT ![g] = "queued"],
             queue |-> Append(queue, g), permits |-> permits]
      [] OTHER ->
            [ready |-> FALSE, wait |-> wait, queue |-> queue, permits |-> permits]

\* what self.service.poll_ready(cx).map_err(LimiterError::from) can return
InnerReady == {"Ok", "Pending", "Underlying"}

\* an off-by-one admission check
over_limit_gt(sum) == sum > config.max

\* if sum >= self.config.max
over_limit(sum) == sum >= config.max

Ret(g, r) == [gate |-> g, ret |-> r]

(***************************************************************************)
(* SlidingMemoryLimiter::poll_ready                                        *)
(***************************************************************************)
poll_ready(g) ==
    /\ gstate[g] = "live"
    /\ IF guard[g].some
       THEN /\ \E r \in InnerReady :
                 /\ last' = Ret(g, r)
                 /\ guard' = [guard EXCEPT ![g].ready = (r = "Ok")]
            /\ UNCHANGED <<wait, queue, permits, mutex>>
       ELSE LET a == poll_acquire(g) IN
            IF ~a.ready
            THEN /\ last' = Ret(g, "Pending")
                 /\ wait' = a.wait
                 /\ queue' = a.queue
                 /\ permits' = a.permits
                 /\ UNCHANGED <<guard, mutex>>
            ELSE IF ~mutex.some
            THEN \* .expect("cannot be empty if we have permit"): the permit is dropped
                 LET r == ReleasePermit(a.wait, a.queue, a.permits) IN
                 /\ last' = Ret(g, "panic")
                 /\ wait' = r.wait
                 /\ queue' = r.queue
                 /\ permits' = r.permits
                 /\ UNCHANGED <<guard, mutex>>
            ELSE IF over_limit(value_order_sum(mutex.val, now))
            THEN \* the local guard is dropped on return: value back, permit released
                 LET r == ReleasePermit(a.wait, a.queue, a.permits) IN
                 /\ last' = Ret(g, "Ratelimited")
                 /\ mutex' = guard_drop(mutex)
                 /\ wait' = r.wait
                 /\ queue' = r.queue
                 /\ permits' = r.permits
                 /\ UNCHANGED guard
            ELSE /\ mutex' = None
                 /\ wait' = a.wait
                 /\ queue' = a.queue
                 /\ permits' = a.permits
                 /\ \E r \in InnerReady :
                      /\ last' = Ret(g, r)
                      /\ guard' = [guard EXCEPT
                                     ![g] = [Some(mutex.val) EXCEPT !.ready = (r = "Ok")]]
    /\ UNCHANGED <<now, config, gstate, calls, outcome>>
    /\ UNCHANGED <<rvars, pvars, bvars, cvars>>

guard_take_keep(gd) == gd

\* self.guard.take(): the field is None afterwards
guard_take(gd) == None

\* the steps of call on request r, in program order: the bucket increment
\* comes before self.service.call(req)
call_steps(r) ==
    << [ev |-> "record", req |-> r], [ev |-> "forward", req |-> r] >>

(***************************************************************************)
(* SlidingMemoryLimiter::call                                              *)
(***************************************************************************)
call(g) ==
    /\ gstate[g] = "live"
    /\ Len(calls) < MaxReqs
    \* a caller hands over a request once poll_ready has returned Ready(Ok)
    /\ guard[g].some => guard[g].ready
    /\ IF ~guard[g].some
       THEN \* .expect("poll ready not called")
            /\ last' = Ret(g, "panic")
            /\ UNCHANGED <<guard, wait, queue, permits, mutex, calls, outcome>>
       ELSE LET c == bucket_incr(
                        cache_get_or_set_with(guard[g].val, current_min(now), now))
                r == ReleasePermit(wait, queue, permits)
            IN  /\ calls' = Append(calls, now)
                /\ outcome' = "pending"
                /\ guard' = [guard EXCEPT ![g] = guard_take(guard[g])]
                /\ mutex' = guard_drop(Some(c))
                /\ wait' = r.wait
                /\ queue' = r.queue
                /\ permits' = r.permits
                /\ last' = Ret(g, "Called")
    /\ UNCHANGED <<now, config, gstate>>
    /\ UNCHANGED <<rvars, pvars, bvars, cvars>>

\* the future returned by self.service.call(req).map(map_err) completes
resolve ==
    /\ outcome = "pending"
    /\ \E r \in {"Ok", "Underlying"} : outcome' = r
    /\ UNCHANGED <<now, config, gstate, guard, wait, last, queue, permits,
                   mutex, calls>>
    /\ UNCHANGED <<rvars, pvars, bvars, cvars>>

\* Clone for SlidingMemoryLimiter: same mutex, guard: None, a fresh PollSemaphore
clone(g, h) ==
    /\ gstate[g] = "live"
    /\ gstate[h] = "absent"
    /\ \A k \in Gates : k < h => gstate[k] # "absent"
    /\ gstate' = [gstate EXCEPT ![h] = "live"]
    /\ UNCHANGED <<now, config, guard, wait, last, queue, permits, mutex,
                   calls, outcome>>
    /\ UNCHANGED <<rvars, pvars, bvars, cvars>>

(***************************************************************************)
(* The gate is dropped (its request is cancelled).  Drop for               *)
(* OwnedMutexGuard puts the value back and then the permit is released; a  *)
(* dropped acquire future leaves the queue, or passes on the permit it had *)
(* been handed.                                                            *)
(***************************************************************************)
drop_gate(g) ==
    /\ gstate[g] \in {"live", "abandoned"}
    /\ gstate' = [gstate EXCEPT ![g] = "dropped"]
    /\ IF guard[g].some
       THEN LET r == ReleasePermit(wait, queue, permits) IN
            /\ mutex' = guard_drop(guard[g])
            /\ guard' = [guard EXCEPT ![g] = None]
            /\ wait' = r.wait
            /\ queue' = r.queue
            /\ permits' = r.permits
       ELSE IF wait[g] = "assigned"
       THEN LET r == ReleasePermit([wait EXCEPT ![g] = "none"], queue, permits) IN
            /\ wait' = r.wait
            /\ queue' = r.queue
            /\ permits' = r.permits
            /\ UNCHANGED <<guard, mutex>>
       ELSE /\ wait' = [wait EXCEPT ![g] = "none"]
            /\ queue' = RemoveFrom(queue, g)
            /\ UNCHANGED <<guard, mutex, permits>>
    /\ UNCHANGED <<now, config, last, calls, outcome>>
    /\ UNCHANGED <<rvars, pvars, bvars, cvars>>

\* the task driving gate g stops polling it, without dropping it
abandon(g) ==
    /\ gstate[g] = "live"
    /\ gstate' = [gstate EXCEPT ![g] = "abandoned"]
    /\ UNCHANGED <<now, config, guard, wait, last, queue, permits, mutex,
                   calls, outcome>>
    /\ UNCHANGED <<rvars, pvars, bvars, cvars>>

\* time passes
tick ==
    /\ now < MaxTime
    /\ now' = now + 1
    /\ UNCHANGED <<config, gstate, guard, wait, last, queue, permits, mutex,
                   calls, outcome>>
    /\ UNCHANGED <<rvars, pvars, bvars, cvars>>

GNext ==
    \/ \E g \in Gates : poll_ready(g)
    \/ \E g \in Gates : call(g)
    \/ resolve
    \/ \E g, h \in Gates : clone(g, h)
    \/ \E g \in Gates : drop_gate(g)
    \/ tick

(***************************************************************************)
(* RandomAttempts, the retry policy, driven by tower's Retry as in the     *)
(* test of repo/policy.rs: Retry::new(policy, service).oneshot(request).   *)
(* Times are milliseconds on the tokio clock.                              *)
(***************************************************************************)
NumCalls == 2

MaxBudget == 2

MaxPTime == 300

ClockStepMs == 50

\* tokio::time::sleep(Duration::from_millis(100))
RetryDelayMs == 100

RCalls == 1..NumCalls

\* what the inner service answers a request with: a response or an error
Answers == {"welt", "WriteConflict", "Other"}

is_ok(a) == a = "welt"

\* RandomAttempts::new(attempts)
RandomAttempts(n) == [attempts |-> n]

NoFuture == [some |-> FALSE, attempts |-> 0, wake |-> 0]

retry_always(p, a) ==
    IF p.attempts = 0
    THEN [self |-> p, fut |-> NoFuture]
    ELSE [self |-> p,
          fut |-> [some |-> TRUE, attempts |-> p.attempts - 1,
                   wake |-> ptime + RetryDelayMs]]

retry_in_place(p, a) ==
    IF is_ok(a) \/ p.attempts = 0
    THEN [self |-> p, fut |-> NoFuture]
    ELSE [self |-> RandomAttempts(p.attempts - 1),
          fut |-> [some |-> TRUE, attempts |-> p.attempts - 1,
                   wake |-> ptime + RetryDelayMs]]

\* Policy::retry(&self, _req, result): the policy it is called on, and the
\* future it returns (None: do not retry)
retry(p, a) ==
    IF is_ok(a)
    THEN [self |-> p, fut |-> NoFuture]
    ELSE IF p.attempts = 0
    THEN [self |-> p, fut |-> NoFuture]
    ELSE [self |-> p,
          fut |-> [some |-> TRUE, attempts |-> p.attempts - 1,
                   wake |-> ptime + RetryDelayMs]]

\* a call that has not been made: `sent` counts the requests handed to the
\* inner service, `fails` the errors it answered, `answer` its last answer
NoCall == [pc |-> "idle", policy |-> RandomAttempts(0), fut |-> NoFuture,
           sent |-> 0, fails |-> 0, answer |-> "none", result |-> "none"]

PInit ==
    /\ policy0 \in {RandomAttempts(n) : n \in 0..MaxBudget}
    /\ ptime = 0
    /\ rc = [k \in RCalls |-> NoCall]

\* no retry service in use
PQuiet ==
    /\ PInit
    /\ policy0 = RandomAttempts(0)

\* Retry::call: the response future gets a clone of the Retry (policy and
\* service) and the request goes to the inner service
retry_call(k) ==
    /\ rc[k].pc = "idle"
    /\ rc' = [rc EXCEPT ![k] = [NoCall EXCEPT !.pc = "called",
                                              !.policy = policy0,
                                              !.sent = 1]]
    /\ UNCHANGED <<policy0, ptime>>
    /\ UNCHANGED <<gvars, rvars, bvars, cvars>>

\* the inner service answers and the response future asks the policy
service_answer(k) ==
    /\ rc[k].pc = "called"
    /\ \E a \in Answers :
         LET r == retry(rc[k].policy, a)
             f == IF is_ok(a) THEN rc[k].fails ELSE rc[k].fails + 1
         IN IF r.fut.some
            THEN rc' = [rc EXCEPT ![k].pc = "checking", ![k].policy = r.self,
                                  ![k].fut = r.fut, ![k].answer = a,
                                  ![k].fails = f]
            ELSE rc' = [rc EXCEPT ![k].pc = "done", ![k].policy = r.self,
                                  ![k].answer = a, ![k].fails = f,
                                  ![k].result = a]
    /\ UNCHANGED <<policy0, ptime>>
    /\ UNCHANGED <<gvars, rvars, bvars, cvars>>

\* RandomAttemptsFuture::poll once the sleep is over: the new policy
\* replaces the call's policy
future_ready(k) ==
    /\ rc[k].pc = "checking"
    /\ ptime >= rc[k].fut.wake
    /\ rc' = [rc EXCEPT ![k].pc = "retrying",
                        ![k].policy = RandomAttempts(rc[k].fut.attempts),
                        ![k].fut = NoFuture]
    /\ UNCHANGED <<policy0, ptime>>
    /\ UNCHANGED <<gvars, rvars, bvars, cvars>>

\* the cloned request goes to the inner service again
retry_send(k) ==
    /\ rc[k].pc = "retrying"
    /\ rc' = [rc EXCEPT ![k].pc = "called", ![k].sent = rc[k].sent + 1]
    /\ UNCHANGED <<policy0, ptime>>
    /\ UNCHANGED <<gvars, rvars, bvars, cvars>>

ptick ==
    /\ ptime < MaxPTime
    /\ ptime' = ptime + ClockStepMs
    /\ UNCHANGED <<policy0, rc>>
    /\ UNCHANGED <<gvars, rvars, bvars, cvars>>

PNext ==
    \/ \E k \in RCalls : retry_call(k)
    \/ \E k \in RCalls : service_answer(k)
    \/ \E k \in RCalls : future_ready(k)
    \/ \E k \in RCalls : retry_send(k)
    \/ ptick

(***************************************************************************)
(* EtcdLimitRepoBuilder: the builder of the two repos.  repo/limit.rs has  *)
(* one service (client) and its build returns a Result; repo/etcd/limit.rs *)
(* has a read service, an update service and a clock, and its build        *)
(* returns the repo or panics.                                             *)
(***************************************************************************)
\* EtcdLimitRepoBuilder::default(); Duration::default() is zero
BuilderDefault == [service |-> FALSE, update_service |-> FALSE, time |-> FALSE,
                   max_lease |-> 0]

\* the windows max_duration is called with, in milliseconds
BuildRanges == {0, 500}

\* client(service) of repo/limit.rs, read_service(service) of repo/etcd/limit.rs
set_service ==
    /\ repo # "Ok"
    /\ builder' = [builder EXCEPT !.service = TRUE]
    /\ UNCHANGED <<repo, rvars>>
    /\ UNCHANGED <<gvars, pvars, cvars>>

set_update_service ==
    /\ repo # "Ok"
    /\ variant = "etcd"
    /\ builder' = [builder EXCEPT !.update_service = TRUE]
    /\ UNCHANGED <<repo, rvars>>
    /\ UNCHANGED <<gvars, pvars, cvars>>

set_time ==
    /\ repo # "Ok"
    /\ variant = "etcd"
    /\ builder' = [builder EXCEPT !.time = TRUE]
    /\ UNCHANGED <<repo, rvars>>
    /\ UNCHANGED <<gvars, pvars, cvars>>

max_duration(range) ==
    /\ repo # "Ok"
    /\ builder' = [builder EXCEPT !.max_lease = range]
    /\ UNCHANGED <<repo, rvars>>
    /\ UNCHANGED <<gvars, pvars, cvars>>

\* build of repo/limit.rs: `self.service.take().ok_or(ClientNotSet)?` and
\* then Ok(EtcdLimitRepo { max_lease: self.max_lease, .. })
build_limit(b) ==
    IF ~b.service
    THEN [ret |-> "ClientNotSet", builder |-> b]
    ELSE [ret |-> "Ok", builder |-> [b EXCEPT !.service = FALSE]]

\* build of repo/etcd/limit.rs: the three take().expect(..) in order, then
\* `if max_lease <= Duration::from_secs(0) { panic!(..) }`
build_etcd(b) ==
    IF ~b.service
    THEN [ret |-> "panic", builder |-> b]
    ELSE IF ~b.update_service
    THEN [ret |-> "panic", builder |-> [b EXCEPT !.service = FALSE]]
    ELSE IF ~b.time
    THEN [ret |-> "panic",
          builder |-> [b EXCEPT !.service = FALSE, !.update_service = FALSE]]
    ELSE IF b.max_lease <= 0
    THEN [ret |-> "panic",
          builder |-> [b EXCEPT !.service = FALSE, !.update_service = FALSE,
                                !.time = FALSE]]
    ELSE [ret |-> "Ok",
          builder |-> [b EXCEPT !.service = FALSE, !.update_service = FALSE,
                                !.time = FALSE]]

\* build(): on Ok the repo exists with the builder's max_lease
build ==
    /\ repo # "Ok"
    /\ LET r == IF variant = "limit" THEN build_limit(builder)
                ELSE build_etcd(builder)
       IN /\ repo' = r.ret
          /\ builder' = r.builder
          /\ max_lease' = IF r.ret = "Ok" THEN builder.max_lease ELSE max_lease
    /\ UNCHANGED <<variant, rclock, offset, store, rpc, ret, adds>>
    /\ UNCHANGED <<gvars, pvars, cvars>>

\* a builder that build() has not been called on
BInit ==
    /\ builder = BuilderDefault
    /\ repo = "none"

\* the repo has been built
BQuiet ==
    /\ builder = BuilderDefault
    /\ repo = "Ok"

(***************************************************************************)
(* CloneOnceService (repo/etcd/cell.rs): a handle on `&mut inner` kept in  *)
(* a Cell<Option<..>>, and the retry-wrapped oneshot of its test:          *)
(* ServiceBuilder::new().retry(TestPolicy(n)).service(handle).oneshot(()). *)
(***************************************************************************)
NumHandles == 3

MaxCellBudget == 2

Handles == 1..NumHandles

\* what the inner service answers a request with: Ok("hallo") or an error
CellAnswers == {"hallo", "err"}

\* `inner`: the Cell holds Some; `cloned`: clone has been called on the handle
NoHandle == [st |-> "absent", inner |-> FALSE, cloned |-> FALSE]

NoOneshot == [pc |-> "idle", h |-> 0, fut_h |-> 0, fresh |-> FALSE, budget |-> 0,
              calls |-> 0, answer |-> "none", result |-> "none"]

NoOut == [op |-> "none", h |-> 0, ret |-> "none"]

\* the handles the oneshot owns: the one of its Retry and the one of the
\* Retry clone in the ResponseFuture
Owned == IF oneshot.pc = "idle" THEN {} ELSE {oneshot.h, oneshot.fut_h}

\* CloneOnceService::new(inner)
cell_new_handle == [st |-> "live", inner |-> TRUE, cloned |-> FALSE]

\* a clone that leaves the reference in the handle it was taken from
cell_replace_keeps(c) == [old |-> c.inner, cell |-> [c EXCEPT !.cloned = TRUE]]

\* `self.0.replace(None)`: the old content, and the cell afterwards
cell_replace_none(c) ==
    [old |-> c.inner, cell |-> [c EXCEPT !.inner = FALSE, !.cloned = TRUE]]

\* the handle map after `h2 = h.clone()`
cloned_into(cl, h, h2) ==
    LET r == cell_replace_none(cl[h])
    IN [cl EXCEPT ![h] = r.cell,
                  ![h2] = [st |-> "live", inner |-> r.old, cloned |-> FALSE]]

\* `.expect("Service can only be cloned once")` succeeds
expect_inner(c) == c.inner

\* new: no handle borrows the inner service
cell_new(h) ==
    /\ \A k \in Handles : cell[k].st = "absent"
    /\ oneshot.pc = "idle"
    /\ cell' = [cell EXCEPT ![h] = cell_new_handle]
    /\ UNCHANGED <<oneshot, cout>>
    /\ UNCHANGED <<gvars, rvars, pvars, bvars>>

cell_clone(h, h2) ==
    /\ h \notin Owned
    /\ cell[h].st = "live"
    /\ cell[h2].st = "absent"
    /\ cell' = cloned_into(cell, h, h2)
    /\ UNCHANGED <<oneshot, cout>>
    /\ UNCHANGED <<gvars, rvars, pvars, bvars>>

cell_poll_ready(h) ==
    /\ h \notin Owned
    /\ cell[h].st = "live"
    /\ cout' = [op |-> "poll_ready", h |-> h,
                ret |-> IF expect_inner(cell[h]) THEN "Ready" ELSE "panic"]
    /\ UNCHANGED <<cell, oneshot>>
    /\ UNCHANGED <<gvars, rvars, pvars, bvars>>

cell_call(h) ==
    /\ h \notin Owned
    /\ cell[h].st = "live"
    /\ \E a \in CellAnswers :
         cout' = [op |-> "call", h |-> h,
                  ret |-> IF expect_inner(cell[h]) THEN a ELSE "panic"]
    /\ UNCHANGED <<cell, oneshot>>
    /\ UNCHANGED <<gvars, rvars, pvars, bvars>>

\* the handle goes out of scope
cell_drop(h) ==
    /\ h \notin Owned
    /\ cell[h].st = "live"
    /\ cell' = [cell EXCEPT ![h] = NoHandle]
    /\ UNCHANGED <<oneshot, cout>>
    /\ UNCHANGED <<gvars, rvars, pvars, bvars>>

\* .retry(TestPolicy(n)).service(handle).oneshot(()): the Retry owns h
oneshot_start(h, n) ==
    /\ oneshot.pc = "idle"
    /\ cell[h].st = "live"
    /\ oneshot' = [NoOneshot EXCEPT !.pc = "not_ready", !.h = h, !.budget = n,
                                    !.fresh = cell[h].inner]
    /\ UNCHANGED <<cell, cout>>
    /\ UNCHANGED <<gvars, rvars, pvars, bvars>>

\* Oneshot polls its Retry ready and calls it.  Retry::call hands the
\* request to its service and gives the ResponseFuture a clone of itself
oneshot_call(h2) ==
    /\ oneshot.pc = "not_ready"
    /\ cell[h2].st = "absent"
    /\ IF expect_inner(cell[oneshot.h])
       THEN /\ cell' = cloned_into(cell, oneshot.h, h2)
            /\ oneshot' = [oneshot EXCEPT !.pc = "called", !.fut_h = h2,
                                          !.calls = @ + 1]
       ELSE /\ oneshot' = [oneshot EXCEPT !.pc = "panic", !.result = "panic"]
            /\ UNCHANGED cell
    /\ UNCHANGED cout
    /\ UNCHANGED <<gvars, rvars, pvars, bvars>>

\* the inner service answers.  TestPolicy retries an error while its budget
\* lasts: the ResponseFuture polls its Retry clone ready and calls the
\* service of that clone
oneshot_answer ==
    /\ oneshot.pc = "called"
    /\ \E a \in CellAnswers :
         IF a = "hallo" \/ oneshot.budget = 0
         THEN oneshot' = [oneshot EXCEPT !.pc = "done", !.answer = a, !.result = a]
         ELSE IF expect_inner(cell[oneshot.fut_h])
         THEN oneshot' = [oneshot EXCEPT !.answer = a, !.budget = @ - 1,
                                        !.calls = @ + 1]
         ELSE oneshot' = [oneshot EXCEPT !.pc = "panic", !.answer = a,
                                         !.result = "panic"]
    /\ UNCHANGED <<cell, cout>>
    /\ UNCHANGED <<gvars, rvars, pvars, bvars>>

\* the oneshot future hands its result to the caller awaiting it and is
\* dropped with the handles it owns
oneshot_drop ==
    /\ oneshot.pc \in {"done", "panic"}
    /\ cell' = [k \in Handles |-> IF k \in Owned THEN NoHandle ELSE cell[k]]
    /\ oneshot' = NoOneshot
    /\ cout' = [op |-> "oneshot", h |-> oneshot.h, ret |-> oneshot.result]
    /\ UNCHANGED <<gvars, rvars, pvars, bvars>>

CInit ==
    /\ cell = [k \in Handles |-> NoHandle]
    /\ oneshot = NoOneshot
    /\ cout = NoOut

\* no CloneOnceService in use
CQuiet == CInit

Init == GInit /\ RQuiet /\ PQuiet /\ BQuiet /\ CQuiet

Spec == Init /\ [][GNext]_vars

(***************************************************************************)
(* The gate under scheduling assumptions: time stands still, tasks may     *)
(* stop polling their gate (abandon) with or without dropping it.  A gate  *)
(* whose task is alive keeps being polled, and whoever holds a guard       *)
(* eventually calls or is dropped.                                         *)
(***************************************************************************)
GQuiet == GInit /\ config = [window |-> 1, resolution |-> 1, max |-> 2]

LInit == GQuiet /\ RQuiet /\ PQuiet /\ BQuiet /\ CQuiet

LNext ==
    \/ \E g \in Gates : poll_ready(g)
    \/ \E g \in Gates : call(g)
    \/ \E g, h \in Gates : clone(g, h)
    \/ \E g \in Gates : drop_gate(g)
    \/ \E g \in Gates : abandon(g)

Finish(g) == guard[g].some /\ (call(g) \/ drop_gate(g))

LiveSpec ==
    /\ LInit
    /\ [][LNext]_vars
    /\ \A g \in Gates : WF_vars(poll_ready(g)) /\ WF_vars(Finish(g))

RepoInit == GQuiet /\ RInit /\ PQuiet /\ BQuiet /\ CQuiet

RNext ==
    \/ \E c \in Clients, key \in RKeys, range \in Ranges : get_limit(c, key, range)
    \/ \E c \in Clients : get_response(c)
    \/ \E c \in Clients, key \in RKeys : add_req(c, key)
    \/ \E c \in Clients : put_response(c)
    \/ \E c \in Clients : add_req_wake(c)
    \/ rtick

SpecRepo == RepoInit /\ [][RNext]_vars

\* rate-limit keys "a", "a_1" and "a_10000016"
KKeys == {<<97>>, <<97, 95, 49>>, <<97, 95, 49, 48, 48, 48, 48, 48, 49, 54>>}

\* one node using the repo for several keys
KNext ==
    \/ \E key \in KKeys, range \in Ranges : get_limit(1, key, range)
    \/ get_response(1)
    \/ \E key \in KKeys : add_req(1, key)
    \/ put_response(1)
    \/ add_req_wake(1)
    \/ rtick

SpecKeys == RepoInit /\ [][KNext]_vars

\* the values a test clock near zero returns, in milliseconds
TestNows == {100, 700}

\* a repo whose clock is a mock that returns one of TestNows on every call
TestClockInit ==
    /\ GQuiet
    /\ PQuiet
    /\ BQuiet
    /\ CQuiet
    /\ variant \in Variants
    /\ max_lease \in MaxLeases
    /\ rclock = 1
    /\ \E t \in TestNows : offset = [c \in Clients |-> t - ClockSeq[1]]
    /\ store = {}
    /\ rpc = [c \in Clients |-> Idle]
    /\ ret = NoRet
    /\ adds = EmptyBag

TestClockNext ==
    \/ \E c \in Clients, key \in RKeys, range \in Ranges : get_limit(c, key, range)
    \/ \E c \in Clients : get_response(c)
    \/ \E c \in Clients, key \in RKeys : add_req(c, key)
    \/ \E c \in Clients : put_response(c)
    \/ \E c \in Clients : add_req_wake(c)

SpecTestClock == TestClockInit /\ [][TestClockNext]_vars

\* an i64 as four 16-bit limbs in two's complement, most significant first
I64(l3, l2, l1, l0) == <<l3, l2, l1, l0>>

i64_negative(n) == n[1] >= TwoPow16 \div 2

\* n > u32::MAX as i64
i64_above_u32_max(n) == ~i64_negative(n) /\ (n[1] > 0 \/ n[2] > 0)

\* `n as u32`: the low 32 bits
as_u32(n) == <<n[3], n[4]>>

\* u32 to i64, zero extended
i64_from_u32(u) == I64(0, 0, u[1], u[2])

\* the count cast to u32 without a check
u32_wrapping(res) == [kind |-> "Ok", val |-> as_u32(res), err |-> "none"]

\* `match u32::try_from(res) { Err(err) => Err(CouldNotConvertEtcdCount(res,
\* err)), Ok(num) => Ok(num) }` on the i64 of GetResponse::count()
u32_try_from_i64(res) ==
    IF i64_negative(res) \/ i64_above_u32_max(res)
    THEN [kind |-> "CouldNotConvertEtcdCount", val |-> as_u32(I64(0, 0, 0, 0)),
          err |-> res]
    ELSE [kind |-> "Ok", val |-> as_u32(res), err |-> "none"]

\* the counts a mocked service answers a Get with: 0, 200, 2^31, u32::MAX,
\* 2^32, 2^32 + 200, i64::MAX, -1, -200 and i64::MIN
MockCounts ==
    {I64(0, 0, 0, 0), I64(0, 0, 0, 200), I64(0, 0, TwoPow16 \div 2, 0),
     I64(0, 0, TwoPow16 - 1, TwoPow16 - 1), I64(0, 1, 0, 0), I64(0, 1, 0, 200),
     I64(TwoPow16 \div 2 - 1, TwoPow16 - 1, TwoPow16 - 1, TwoPow16 - 1),
     I64(TwoPow16 - 1, TwoPow16 - 1, TwoPow16 - 1, TwoPow16 - 1),
     I64(TwoPow16 - 1, TwoPow16 - 1, TwoPow16 - 1, TwoPow16 - 200),
     I64(TwoPow16 \div 2, 0, 0, 0)}

\* the mocked service answers the Get: a response with any count, or an error
mock_get_response(c) ==
    /\ rpc[c].pc = "get"
    /\ \/ \E res \in MockCounts :
            LET r == u32_try_from_i64(res)
            IN ret' = [Returned("get_limit", r.kind, r.val, rpc[c].range, 1, 1)
                         EXCEPT !.err = r.err, !.answer = res]
       \/ \E res_ \in Errors :
            LET e == get_err(res_)
            IN ret' = [Returned("get_limit", e.kind, 0, rpc[c].range, 1, 1)
                         EXCEPT !.err = e.err, !.answer = res_]
    /\ rpc' = [rpc EXCEPT ![c] = Idle]
    /\ UNCHANGED <<variant, max_lease, rclock, offset, store, adds>>
    /\ UNCHANGED <<gvars, pvars, bvars, cvars>>

\* a repo over a mocked service
MockNext ==
    \/ \E c \in Clients, key \in RKeys, range \in Ranges : get_limit(c, key, range)
    \/ \E c \in Clients : mock_get_response(c)
    \/ rtick

SpecMock == RepoInit /\ [][MockNext]_vars

\* get_limit returned after the service answered with a count
CountAnswered == ret.op = "get_limit" /\ ret.kind \in {"Ok", "CouldNotConvertEtcdCount"}

\* C38: a count that is negative or above 2^32-1 makes get_limit return
\* CouldNotConvertEtcdCount carrying that count, and every count in
\* 0..2^32-1 is returned unchanged.
C38_CountConversion ==
    CountAnswered =>
        IF i64_negative(ret.answer) \/ i64_above_u32_max(ret.answer)
        THEN ret.kind = "CouldNotConvertEtcdCount" /\ ret.err = ret.answer
        ELSE ret.kind = "Ok" /\ i64_from_u32(ret.val) = ret.answer

\* a negative count has been refused
C38_Witness ==
    /\ CountAnswered
    /\ i64_negative(ret.answer)
    /\ ret.kind = "CouldNotConvertEtcdCount"

\* a builder fresh from default(), and get_limit on the repo it builds
BuildInit ==
    /\ GQuiet
    /\ PQuiet
    /\ CQuiet
    /\ BInit
    /\ variant \in Variants
    /\ max_lease = 0
    /\ rclock = 1
    /\ offset = [c \in Clients |-> 0]
    /\ store = {}
    /\ rpc = [c \in Clients |-> Idle]
    /\ ret = NoRet
    /\ adds = EmptyBag

BuildNext ==
    \/ set_service
    \/ set_update_service
    \/ set_time
    \/ \E range \in BuildRanges : max_duration(range)
    \/ build
    \/ repo = "Ok" /\ \E c \in Clients, key \in RKeys, range \in Ranges :
                        get_limit(c, key, range)
    \/ repo = "Ok" /\ \E c \in Clients : get_response(c)
    \/ rtick

SpecBuild == BuildInit /\ [][BuildNext]_vars

\* everything build() needs except the window has been set
AllSet(b) == b.service /\ (variant = "etcd" => (b.update_service /\ b.time))

\* C39: build with max_duration never set yields no repository, every
\* repository that exists has max_lease > 0, and build with a service, a
\* clock and a positive max_duration yields a repository with that max_lease.
C39_PositiveMaxLease ==
    /\ [](repo = "Ok" => max_lease > 0)
    /\ [][(repo # "Ok" /\ repo' = "Ok") =>
             (builder.max_lease > 0 /\ max_lease' = builder.max_lease)]_vars
    /\ [][(AllSet(builder) /\ builder.max_lease > 0 /\ ~builder'.service) =>
             (repo' = "Ok" /\ max_lease' = builder.max_lease)]_vars

\* one inner service, handed out through CloneOnceService handles
CellInit == GQuiet /\ RQuiet /\ PQuiet /\ BQuiet /\ CInit

CellNext ==
    \/ \E h \in Handles : cell_new(h)
    \/ \E h, h2 \in Handles : cell_clone(h, h2)
    \/ \E h \in Handles : cell_poll_ready(h)
    \/ \E h \in Handles : cell_call(h)
    \/ \E h \in Handles : cell_drop(h)
    \/ \E h \in Handles, n \in 0..MaxCellBudget : oneshot_start(h, n)
    \/ \E h2 \in Handles : oneshot_call(h2)
    \/ oneshot_answer
    \/ oneshot_drop

SpecCell == CellInit /\ [][CellNext]_vars

\* the handles that hold the inner service
Holders == {h \in Handles : cell[h].st = "live" /\ cell[h].inner}

\* C40: at most one of an instance and its clones holds the inner service,
\* poll_ready and call panic on a handle that has been cloned, and a
\* retry-wrapped oneshot over a new CloneOnceService returns the response of
\* the inner service.
C40_CloneOnce ==
    /\ [](Cardinality(Holders) <= 1)
    /\ [][(cout' # cout /\ cout'.op \in {"poll_ready", "call"}
                        /\ cell[cout'.h].cloned) => cout'.ret = "panic"]_vars
    /\ []((oneshot.pc \in {"done", "panic"} /\ oneshot.fresh) =>
            (oneshot.result \in CellAnswers /\ oneshot.result = oneshot.answer))

\* the oneshot has returned the inner service's response after a retry that
\* went through the clone, and the handle it was started on is empty
C40_Witness ==
    /\ oneshot.pc = "done"
    /\ oneshot.fresh
    /\ oneshot.calls >= 2
    /\ oneshot.result = "hallo"
    /\ cell[oneshot.h].cloned
    /\ Holders = {oneshot.fut_h}

\* gate instances, one per client, sharing the store
SharedNext ==
    \/ \E c \in Clients, key \in RKeys, range \in Ranges : get_limit(c, key, range)
    \/ \E c \in Clients : gate_decide(c)
    \/ \E c \in Clients : put_response(c)
    \/ \E c \in Clients : add_req_wake(c)
    \/ rtick

SpecShared == RepoInit /\ [][SharedNext]_vars

RetryInit == GQuiet /\ RQuiet /\ PInit /\ BQuiet /\ CQuiet

(***************************************************************************)
(* One gate with max = 3 and window = 60 s, a request at each of the       *)
(* seconds in RecordTimes, then an admission check at CheckTime.           *)
(***************************************************************************)
CountTime == 25

CheckTime == 26

EndTime == 61

\* the seconds at which a request arrives
RecordTimes == <<0, 10, 20>>

E2EConfigs == {[window |-> 60, resolution |-> r, max |-> 3] : r \in {1, 10, 60}}

Secs(t) == t * TicksPerSec

\* the requests that have arrived by tick t
Due(t) == Cardinality({i \in DOMAIN RecordTimes : Secs(RecordTimes[i]) <= t})

E2EInit ==
    /\ \E cfg \in E2EConfigs : new(cfg)
    /\ RQuiet
    /\ PQuiet
    /\ BQuiet
    /\ CQuiet

\* a request that has arrived is driven through poll_ready and call
e2e_poll_ready(g) ==
    /\ Len(calls) < Due(now)
    /\ poll_ready(g)

e2e_call(g) ==
    /\ Len(calls) < Due(now)
    /\ guard[g].some
    /\ call(g)

\* the admission checks at CheckTime and at EndTime
e2e_check(g) ==
    /\ now \in {Secs(CheckTime), Secs(EndTime)}
    /\ poll_ready(g)

\* the clock moves on once the requests that have arrived are forwarded
e2e_tick ==
    /\ Len(calls) = Due(now)
    /\ now < Secs(EndTime)
    /\ now' = now + 1
    /\ UNCHANGED <<config, gstate, guard, wait, last, queue, permits, mutex,
                   calls, outcome>>
    /\ UNCHANGED <<rvars, pvars, bvars, cvars>>

E2ENext ==
    \/ \E g \in Gates : e2e_poll_ready(g)
    \/ \E g \in Gates : e2e_call(g)
    \/ \E g \in Gates : e2e_check(g)
    \/ e2e_tick

SpecE2E == E2EInit /\ [][E2ENext]_vars

SpecRetry == RetryInit /\ [][PNext]_vars


(***************************************************************************)
(* Observations on the gate.                                               *)
(***************************************************************************)
\* the steps of all calls so far, in program order
RECURSIVE EventsUpTo(_)
EventsUpTo(n) == IF n = 0 THEN << >> ELSE EventsUpTo(n - 1) \o call_steps(n)
Events == EventsUpTo(Len(calls))

\* the bucket map, wherever it currently lives: in the mutex or in the guard
GuardHolders == { g \in Gates : guard[g].some }
TheCache ==
    IF mutex.some THEN mutex.val
    ELSE IF GuardHolders # {} THEN guard[CHOOSE g \in GuardHolders : TRUE].val
    ELSE << [key |-> -1, stamp |-> -1, val |-> -1] >>

\* the exclusive-access token is free, or already handed to a queued waiter
TokenFree == permits = 1 \/ \E h \in Gates : wait[h] = "assigned"

\* requests forwarded at a time in the window (t - window, t]
InWindow(t) ==
    { i \in 1..Len(calls) :
        t - config.window * TicksPerSec < calls[i] /\ calls[i] <= t }

(***************************************************************************)
(* C1: with one gate and its clones as the only writer, the number of      *)
(* requests forwarded within any one sliding window of length `window`     *)
(* never exceeds `max`.                                                    *)
(***************************************************************************)
C1_MaxPerWindow ==
    \A t \in 0..MaxTime : Cardinality(InWindow(t)) <= config.max

(***************************************************************************)
(* C2: when the admission check finds count >= max, poll_ready returns     *)
(* Ratelimited, forwards nothing, leaves the count unchanged and ends with *)
(* the gate holding neither a guard nor a place in the semaphore, the      *)
(* token being free again.                                                 *)
(***************************************************************************)
C2_RejectKeepsQuota ==
    [][ \A g \in Gates :
          ( /\ poll_ready(g)
            /\ ~guard[g].some
            /\ (wait[g] = "assigned" \/ (wait[g] = "none" /\ permits > 0))
            /\ mutex.some
            /\ value_order_sum(mutex.val, now) >= config.max )
          => ( /\ last' = Ret(g, "Ratelimited")
               /\ calls' = calls
               /\ TheCache' = TheCache
               /\ mutex'.some
               /\ guard'[g] = None
               /\ wait'[g] = "none"
               /\ TokenFree' )
      ]_vars

C2_Witness ==
    /\ last.ret = "Ratelimited"
    /\ Len(calls) >= config.max
    /\ \E h \in Gates : wait[h] = "assigned"

(***************************************************************************)
(* C7: across all clones at most one guard exists at any time, and while a *)
(* guard is held every poll_lock of another clone returns Pending.         *)
(***************************************************************************)
C7_MutualExclusion ==
    /\ [](Cardinality(GuardHolders) <= 1)
    /\ [][ \A g, h \in Gates :
             (g # h /\ guard[h].some /\ poll_ready(g))
             => (last' = Ret(g, "Pending") /\ ~guard'[g].some /\ guard'[h] = guard[h])
         ]_vars

C7_Witness ==
    /\ GuardHolders # {}
    /\ Len(queue) >= 2
    /\ last.ret = "Pending"

(***************************************************************************)
(* C9: a step that forwards no request leaves the bucket map unchanged; in *)
(* particular dropping a gate during or after poll_ready and before call   *)
(* creates or increments no bucket.                                        *)
(***************************************************************************)
C9_CancelLeavesStore ==
    [][ calls' = calls => TheCache' = TheCache ]_vars

\* the gate whose poll_ready just returned Ok was dropped before its call,
\* with usage already in the map
C9_Witness ==
    /\ last.ret = "Ok"
    /\ gstate[last.gate] = "dropped"
    /\ TheCache # << >>

(***************************************************************************)
(* C10: the usage record of a request is issued only after the request has *)
(* been forwarded to the downstream handler, and only if forwarding        *)
(* succeeded.                                                              *)
(***************************************************************************)
C10_RecordAfterForward ==
    /\ \A i \in 1..Len(Events) :
         Events[i].ev = "record" =>
           \E j \in 1..(i - 1) :
             Events[j].ev = "forward" /\ Events[j].req = Events[i].req
    /\ (Len(calls) > 0 /\ TheCache # << >>) => outcome = "Ok"


(***************************************************************************)
(* C8 as stated: a waiter whose task keeps polling eventually gets the     *)
(* token, whether the other requests were dropped or merely never polled   *)
(* again.                                                                  *)
(***************************************************************************)
Waiting(g) == gstate[g] = "live" /\ wait[g] = "queued"
Served(g) == wait[g] # "queued" \/ gstate[g] # "live"

C8_NoWaiterDeadlocks ==
    \A g \in Gates : Waiting(g) ~> Served(g)

(***************************************************************************)
(* C8 amended: a waiter whose task keeps polling eventually gets the       *)
(* token, unless the permit has been handed to a waiter that is neither    *)
(* polled again nor dropped.                                               *)
(***************************************************************************)
HandedToAbandoned == \E h \in Gates : gstate[h] = "abandoned" /\ wait[h] = "assigned"

C8_NoDeadlockUnlessHandedToAbandoned ==
    \A g \in Gates : Waiting(g) ~> (Served(g) \/ HandedToAbandoned)

\* a gate was dropped while it waited for the token, and a waiter behind it
\* has been handed the permit
C8_Witness ==
    /\ last.ret = "Pending"
    /\ gstate[last.gate] = "dropped"
    /\ \E h \in Gates : gstate[h] = "live" /\ wait[h] = "assigned"

(***************************************************************************)
(* Observations on the repo.                                               *)
(***************************************************************************)
\* the step in which client c's get_limit returns Ok(count)
GetReturnsOk(c) ==
    /\ rpc[c].pc = "get"
    /\ rpc'[c].pc = "idle"
    /\ ret'.kind = "Ok"

\* no add_req has returned since client c's get_limit started
StoreSettled(c) == rpc[c].seen = BagCardinality(adds)

\* the records of `key` with lo <= timestamp <= hi
RecordsBetween(key, lo, hi) ==
    {r \in store : r.rkey = key /\ lo <= r.ts /\ r.ts <= hi}

\* the records the Get of client c matches
Counted(c) == {r \in store : in_range(r.key, rpc[c].key, rpc[c].range_end)}

\* the successful add_req calls for `key`
AddsFor(key) ==
    LET D == {a \in BagToSet(adds) : a.rkey = key}
    IN [a \in D |-> adds[a]]

\* C3: get_limit with range > max_lease returns RangeLongerThanMax without
\* having read the clock or sent a request; a range <= max_lease never
\* returns that error, and no Get is ever in flight for a range > max_lease.
C3_WindowTooLarge ==
    /\ ret.op = "get_limit" =>
         /\ (ret.range > max_lease) <=> (ret.kind = "RangeLongerThanMax")
         /\ ret.range > max_lease => ret.reads = 0 /\ ret.sends = 0
    /\ \A c \in Clients : rpc[c].pc = "get" => rpc[c].range <= max_lease

C3_Witness ==
    /\ ret.op = "get_limit"
    /\ ret.kind = "RangeLongerThanMax"
    /\ ret.range > max_lease
    /\ ret.sends = 0

\* C4: whenever get_limit(key, range) returns a count (and no record was
\* written while it ran), the count is the number of records of that key
\* with now - range <= timestamp <= now + skew.
C4_CountsExactly ==
    [][\A c \in Clients : (GetReturnsOk(c) /\ StoreSettled(c)) =>
         ret'.val = Cardinality(RecordsBetween(rpc[c].rkey,
                                               rpc[c].now - rpc[c].range,
                                               rpc[c].now + Skew(variant)))]_vars

\* C5: when all N successful add_req(key) calls were made by one client, all
\* had returned before get_limit(key, range) started, none is in flight, and
\* all of them read a clock value within the range before now, get_limit
\* returns N.
C5_CountsEveryRecord ==
    [][\A c \in Clients : GetReturnsOk(c) =>
         LET A == AddsFor(rpc[c].rkey) IN
         (/\ \E w \in Clients : \A a \in DOMAIN A : a.c = w
          /\ StoreSettled(c)
          /\ \A a \in DOMAIN A : /\ rpc[c].now - rpc[c].range <= a.ts
                                 /\ a.ts <= rpc[c].now
          /\ \A d \in Clients : rpc[d].pc \in {"put", "sleep"} => rpc[d].rkey # rpc[c].rkey)
         => ret'.val = BagCardinality(A)]_vars

\* C6: every record the Get of get_limit(key, range) matches (no record being
\* written while it ran) is a record of that key with
\* now - range <= timestamp <= now + skew.
C6_NeverCountsOutside ==
    [][\A c \in Clients : (GetReturnsOk(c) /\ StoreSettled(c)) =>
         Counted(c) \subseteq RecordsBetween(rpc[c].rkey,
                                             rpc[c].now - rpc[c].range,
                                             rpc[c].now + Skew(variant))]_vars

\* the step is a Put of add_req that etcd answers with Ok
PutApplied ==
    \E c \in Clients : /\ rpc[c].pc = "put"
                       /\ rpc'[c].pc = "idle"
                       /\ ret'.op = "add_req"
                       /\ ret'.kind = "Ok"

\* C23: every record once written stays in the store with its key and its
\* one-byte value [1]; only a successful Put of add_req changes the store,
\* and it adds at most one record; get_limit leaves the store unchanged.
C23_AppendOnly ==
    [][/\ \A r \in store : \E q \in store' : q.key = r.key /\ q.val = r.val
       /\ \A q \in store' : q.val = <<1>>
       /\ store' # store => (PutApplied /\ Cardinality(store' \ store) = 1)
       /\ (\E c \in Clients : /\ rpc'[c] # rpc[c]
                               /\ "get" \in {rpc[c].pc, rpc'[c].pc})
             => store' = store]_vars

\* two Puts of one key have been applied, a get_limit has returned since
C23_Witness ==
    /\ BagCardinality(adds) = 2
    /\ Cardinality(store) = 1
    /\ ret.op = "get_limit"
    /\ ret.kind = "Ok"

\* the bytes of "limit_" + key + "_" + ms in decimal
KeyBytes(key, ms) == <<108, 105, 109, 105, 116, 95>> \o key \o <<95>> \o Digits(ms)

\* the skew the variant in use adds to the range end, in milliseconds
SkewMs == IF variant = "limit" THEN SkewSecsLimit * 1000 ELSE SkewSecsEtcd * 1000

C25_PutOfMarker ==
    [][\A c \in Clients :
         /\ (rpc'[c].pc = "put" /\ rpc[c].pc # "put") =>
               /\ rpc[c].pc \in {"idle", "sleep"}
               /\ rpc'[c].key = KeyBytes(rpc'[c].rkey, ClockSeq[rclock] + offset[c])
               /\ rpc[c].pc = "sleep" =>
                     (rpc'[c].rkey = rpc[c].rkey /\ rpc'[c].i = rpc[c].i + 1)
         /\ (rpc[c].pc \in {"put", "sleep"} /\ rpc'[c] # rpc[c]) =>
               /\ rpc'[c].pc \in {"put", "sleep", "idle"}
               /\ store' \ store \subseteq
                     {[key |-> rpc[c].key, val |-> <<1>>,
                       rkey |-> rpc[c].rkey, ts |-> rpc[c].now]}
               /\ rpc'[c].pc = "idle" =>
                     (/\ ret'.op = "add_req"
                      /\ ret'.sends = rpc[c].i + 1
                      /\ ret'.kind = "Ok" => rpc[c].pc = "put")]_vars

\* a second attempt, made after the clock moved on, has been applied
C25_Witness ==
    /\ ret.op = "add_req"
    /\ ret.kind = "Ok"
    /\ ret.sends = 2
    /\ \E r \in store : r.ts = ClockSeq[rclock] /\ rclock > 1

\* C26: when the Get of get_limit fails, get_limit returns the Etcd error
\* that carries the error the backend answered with, never Ok.
C26_GetFailureSurfaces ==
    (ret.op = "get_limit" /\ ret.answer \in Errors) =>
        /\ ret.kind = "Etcd"
        /\ ret.err = ret.answer
        /\ ret.sends = 1

\* the Get failed with the second error while a record was in the store
C26_Witness ==
    /\ ret.op = "get_limit"
    /\ ret.answer = "e2"
    /\ ret.kind = "Etcd"
    /\ store # {}

\* C27: a record written by a peer whose clock is ahead of the reader's by
\* at most 60 s, at a true time inside the reader's window, is matched by
\* the reader's Get once its add_req has returned.
C27_SkewedRecordVisible ==
    [][\A c \in Clients : (GetReturnsOk(c) /\ StoreSettled(c)) =>
         \A a \in DOMAIN AddsFor(rpc[c].rkey) :
            LET ahead == offset[a.c] - offset[c]
                tn == rpc[c].now - offset[c]
                ta == a.ts - offset[a.c]
            IN (/\ 0 <= ahead
                /\ ahead <= SkewSecsEtcd * 1000
                /\ tn - rpc[c].range <= ta
                /\ ta <= tn)
               => \E r \in Counted(c) : r.key = KeyBytes(a.rkey, a.ts)]_vars

\* C33: every record the Get of get_limit(A, W) matches is a record written
\* by add_req(A), whatever other keys have records in the store.
C33_KeyIsolation ==
    [][\A c \in Clients : GetReturnsOk(c) =>
          \A r \in Counted(c) : r.rkey = rpc[c].rkey]_vars

\* C34: an add_req of repo/limit.rs that returns the error of a backend
\* failing every Put has sent the Put at least three times.
C34_ThreeAttempts ==
    (variant = "limit" /\ ret.op = "add_req" /\ ret.kind = "Etcd") =>
        ret.sends >= 3

\* the Put of client c is applied by the backend in this step
PutSucceeds(c) ==
    \E a \in DOMAIN adds' :
        /\ a.c = c
        /\ adds'[a] > (IF a \in DOMAIN adds THEN adds[a] ELSE 0)

\* C35: add_req returns Ok exactly in the step in which one of its Puts
\* succeeds, every attempt before that one having failed, and sends nothing
\* afterwards; an add_req that returns an error has had every attempt fail.
C35_OkIffPutSucceeded ==
    [][\A c \in Clients :
         /\ (rpc[c].pc \in {"put", "sleep"} /\ rpc'[c].pc = "idle") =>
               /\ ret'.op = "add_req"
               /\ (ret'.kind = "Ok") <=> PutSucceeds(c)
               /\ ret'.kind = "Ok" =>
                     /\ rpc[c].pc = "put"
                     /\ ret'.sends = rpc[c].i + 1
                     /\ rpc[c].i > 0 => rpc[c].answer \in Errors
               /\ ret'.kind # "Ok" => (ret'.kind = "Etcd" /\ ret'.err \in Errors)
         /\ PutSucceeds(c) => (rpc[c].pc = "put" /\ rpc'[c].pc = "idle")]_vars

\* the second attempt succeeded after the first had failed
C35_Witness ==
    /\ variant = "limit"
    /\ ret.op = "add_req"
    /\ ret.kind = "Ok"
    /\ ret.sends = 2
    /\ BagCardinality(adds) = 1

\* C36: a get_limit with range <= max_lease never panics on now - range,
\* whatever the clock returns.
C36_WindowStartNoPanic ==
    (ret.op = "get_limit" /\ ret.range <= max_lease) => ret.kind # "panic"

\* the step admits the request client c was checking
Admits(c) == rpc[c].pc = "get" /\ rpc'[c].pc = "put"

\* the recorded admissions of the key client c checks whose true time lies
\* in the window that ends at the true time of the check
RecordedInWindow(c) ==
    LET tn == rpc[c].now - offset[c]
        A == AddsFor(rpc[c].rkey)
        D == {a \in DOMAIN A : /\ tn - rpc[c].range <= a.ts - offset[a.c]
                               /\ a.ts - offset[a.c] <= tn}
    IN BagCardinality([a \in D |-> A[a]])

\* C22: gate instances sharing the store admit at most max requests per
\* window and key beyond those in flight: when no record completed while
\* the check ran, a request is admitted only if fewer than max admitted
\* requests of the window have been recorded.
C22_BoundedOverAdmission ==
    [][\A c \in Clients : (Admits(c) /\ StoreSettled(c)) =>
          RecordedInWindow(c) < GateMax]_vars

(***************************************************************************)
(* The gate as a state machine: Idle (no guard), Admitted (guard held).    *)
(***************************************************************************)
\* the step forwards a request
Forwards == Len(calls') = Len(calls) + 1

C12_ErrorLeavesIdle ==
    last.ret \in {"Ratelimited", "Underlying"} => ~guard[last.gate].some

(***************************************************************************)
(* add_req under colliding timestamps and failing writes.                  *)
(***************************************************************************)
\* C13: when no client has written the same timestamp twice itself, every
\* add_req that returned Ok has its own record: writers that computed the
\* same key did not overwrite one another.
C13_CollisionKeepsBoth ==
    (\A a \in BagToSet(adds) : adds[a] = 1) =>
        Cardinality(store) = BagCardinality(adds)

\* the error of client c's most recent failed Put, "none" before the first
LastPutError(c) == rpc[c].answer

\* C16: whenever add_req returns after its last attempt failed, it returns
\* Err(Etcd(e)) with e the error of that last attempt; it returns Ok only in
\* the step in which a Put succeeded, never after the attempts ran out.
C16_ExhaustionReturnsLastError ==
    [][\A c \in Clients :
         (rpc[c].pc \in {"put", "sleep"} /\ rpc'[c].pc = "idle") =>
            IF rpc[c].pc = "sleep"
            THEN /\ ret'.op = "add_req" /\ ret'.kind = "Etcd"
                 /\ ret'.err = LastPutError(c)
                 /\ UNCHANGED <<store, adds>>
            ELSE \/ /\ ret'.kind = "Ok"
                    /\ BagCardinality(adds') = BagCardinality(adds) + 1
                 \/ /\ ret'.kind = "Etcd" /\ ret'.err \in Errors
                    /\ UNCHANGED <<store, adds>>]_vars

\* add_req of repo/limit.rs returned an error after all its attempts failed
C16_Witness ==
    /\ variant = "limit"
    /\ ret.op = "add_req"
    /\ ret.kind = "Etcd"
    /\ ret.sends = Attempts
    /\ ret.err = "e2"

(***************************************************************************)
(* The retry policy.  max_attempts is the value the policy was built with, *)
(* policy0.attempts.                                                       *)
(***************************************************************************)
\* call k is over
Done(k) == rc[k].pc = "done"

\* C14: a call that ends with a response was sent once more than the inner
\* service failed, and returns the service's last answer unchanged; a
\* response is never retried; and a call ends with an error only when the
\* service failed at least max_attempts times, so K < max_attempts failures
\* followed by a success end in success after K + 1 attempts.
C14_SuccessAfterKFailures ==
    \A k \in RCalls :
        /\ (rc[k].pc # "idle" /\ is_ok(rc[k].answer)) => Done(k)
        /\ Done(k) =>
              /\ rc[k].result = rc[k].answer
              /\ is_ok(rc[k].result) => rc[k].sent = rc[k].fails + 1
              /\ ~is_ok(rc[k].result) => rc[k].fails >= policy0.attempts

\* one failure, then a response on the second attempt
C14_Witness ==
    \E k \in RCalls :
        /\ Done(k)
        /\ is_ok(rc[k].result)
        /\ rc[k].fails = 1
        /\ rc[k].sent = 2
        /\ policy0.attempts = 2

\* C15: with max_attempts >= 1, a call that ends with an error was sent
\* exactly max_attempts times.
C15_FailsAfterMaxAttempts ==
    \A k \in RCalls :
        (policy0.attempts >= 1 /\ Done(k) /\ ~is_ok(rc[k].result)) =>
            rc[k].sent = policy0.attempts

\* C17: the policy asks for a retry only after a write conflict; any other
\* error ends the call.
C17_OnlyConflictsRetried ==
    \A k \in RCalls :
        rc[k].pc \in {"checking", "retrying"} => rc[k].answer = "WriteConflict"

\* C18: a retry is decided only on a failure with budget left, it waits
\* RetryDelayMs from the failure, the request is sent again only after the
\* wait, each retry takes one from the budget, and a call is sent at most
\* max_attempts times (max_attempts >= 1).
C18_BoundedRetries ==
    [][\A k \in RCalls :
         /\ (rc[k].pc = "called" /\ rc'[k].pc = "checking") =>
               /\ ~is_ok(rc'[k].answer)
               /\ rc[k].policy.attempts > 0
               /\ rc'[k].fut.wake = ptime + RetryDelayMs
               /\ rc'[k].fut.attempts = rc[k].policy.attempts - 1
         /\ (rc[k].pc = "checking" /\ rc'[k].pc = "retrying") =>
               /\ ptime >= rc[k].fut.wake
               /\ rc'[k].policy.attempts = rc[k].policy.attempts - 1
         /\ rc'[k].sent > rc[k].sent =>
               /\ rc'[k].sent = rc[k].sent + 1
               /\ rc[k].pc \in {"idle", "retrying"}
         /\ policy0.attempts >= 1 => rc'[k].sent <= policy0.attempts]_vars

\* C19: the policy of the Retry service never changes, every call starts
\* with its full budget, retry leaves the policy it is called on as it was
\* and hands the decremented budget to the future, and a step of one call
\* leaves the other calls untouched.
C19_NoSharedRetryState ==
    [][/\ policy0' = policy0
       /\ \A k \in RCalls :
            /\ (rc[k].pc = "idle" /\ rc'[k].pc # "idle") =>
                  rc'[k].policy = policy0
            /\ (rc[k].pc = "called" /\ rc'[k].pc = "checking") =>
                  /\ rc'[k].policy = rc[k].policy
                  /\ rc'[k].fut.attempts = rc[k].policy.attempts - 1
            /\ rc'[k] # rc[k] => \A j \in RCalls \ {k} : rc'[j] = rc[j]]_vars

\* one call waits for its retry with a used budget while another call, made
\* on the same Retry, is in flight with the full budget
C19_Witness ==
    \E k, j \in RCalls :
        /\ k # j
        /\ rc[k].pc = "checking"
        /\ rc[k].fut.attempts < policy0.attempts
        /\ rc[j].pc = "called"
        /\ rc[j].sent = 1
        /\ rc[j].policy = policy0

(***************************************************************************)
(* End to end.                                                             *)
(***************************************************************************)
\* C20: with max = 3 and window = 60 s, after requests at 0 s, 10 s and 20 s
\* the count at 25 s is 3, and the admission check at 26 s returns
\* Ratelimited and forwards nothing.
C20_EndToEnd ==
    /\ [](now = Secs(CountTime) => value_order_sum(TheCache, now) = 3)
    /\ [][(now = Secs(CheckTime) /\ last' # last) =>
             (last'.ret = "Ratelimited" /\ calls' = calls)]_vars

C20_Witness ==
    /\ now = Secs(CheckTime)
    /\ calls = <<Secs(0), Secs(10), Secs(20)>>
    /\ last.ret = "Ratelimited"

\* C28: the bucket of every request forwarded in the window (now - window,
\* now] is in the bucket map and not expired.
C28_WindowBucketsRetained ==
    \A i \in InWindow(now) :
        \E j \in DOMAIN TheCache :
            /\ TheCache[j].key = (calls[i] \div TicksPerSec) \div config.resolution
            /\ ((now - TheCache[j].stamp) \div TicksPerSec) < config.window

\* the bucket a tick falls into
BucketOf(t) == (t \div TicksPerSec) \div config.resolution

\* the buckets that hold a request forwarded in the window (now - window, now]
WindowBuckets == {BucketOf(calls[i]) : i \in InWindow(now)}

\* the sum of the counters of the buckets in K
RECURSIVE CounterSum(_, _)
CounterSum(c, K) ==
    IF c = << >> THEN 0
    ELSE (IF Head(c).key \in K THEN Head(c).val ELSE 0) + CounterSum(Tail(c), K)

\* C29: a forward adds one to the counter of the bucket of the current time
\* and to no other, and the count the admission check compares with max is
\* the sum of the counters of exactly the buckets inside the window.
C29_SumOfWindowBuckets ==
    /\ []((mutex.some \/ GuardHolders # {}) =>
            value_order_sum(TheCache, now) = CounterSum(TheCache, WindowBuckets))
    /\ [][Forwards =>
            /\ value_order_sum(TheCache', now) = value_order_sum(TheCache, now) + 1
            /\ CounterSum(TheCache', {BucketOf(now)}) >= 1
            /\ \A k \in WindowBuckets \ {BucketOf(now)} :
                  CounterSum(TheCache', {k}) = CounterSum(TheCache, {k})]_vars

\* while another gate keeps the guard, gate g gets no guard and a queued g
\* stays queued for as long as it is alive
StaysBlocked(g) ==
    (\E h \in Gates \ {g} : guard[h].some /\ guard'[h].some) =>
        /\ ~guard'[g].some
        /\ (wait[g] = "queued" /\ gstate'[g] = "live") => wait'[g] = "queued"

\* the value a gate finds under the lock holds every modification made by
\* the holders before it: one count per forwarded request (the clock of
\* LiveSpec stands still, nothing expires)
ObservesValue(g) ==
    (~guard[g].some /\ guard'[g].some) =>
        value_order_sum(guard'[g].val, now) = Len(calls)

\* C30 as stated: a waiter stays blocked while another task holds the
\* guard, and (the holder dropping the guard in the end) a waiter that keeps
\* polling eventually acquires the lock and sees the holder's last
\* modification.
C30_WaiterAcquiresAfterDrop ==
    /\ [][\A g \in Gates : StaysBlocked(g) /\ ObservesValue(g)]_vars
    /\ \A g \in Gates : (Waiting(g) /\ GuardHolders # {}) ~> Served(g)

\* C30 (amended): the same, unless the permit has been handed to a waiter
\* ahead in the queue that is neither polled again nor dropped.
C30_AcquiresUnlessHandedToAbandoned ==
    /\ [][\A g \in Gates : StaysBlocked(g) /\ ObservesValue(g)]_vars
    /\ \A g \in Gates :
          (Waiting(g) /\ GuardHolders # {}) ~> (Served(g) \/ HandedToAbandoned)

\* a gate has the guard and finds the count of an earlier holder in it while
\* another gate is queued behind it
C30_Witness ==
    \E g \in Gates :
        /\ guard[g].some
        /\ last.gate = g
        /\ Len(calls) = 1
        /\ value_order_sum(guard[g].val, now) = 1
        /\ \E h \in Gates \ {g} : wait[h] = "queued"

\* C31: whoever obtains the permit finds the value in the mutex (the value is
\* back whenever the token is free, the `expect` of poll_lock never fails),
\* a dropped guard leaves the value it held in the mutex, the value stays
\* there untouched, and the next guard reads exactly that value.
C31_ValueHandOff ==
    /\ [](TokenFree => mutex.some)
    /\ [][/\ \A g \in Gates : poll_ready(g) => last'.ret # "panic"
          /\ \A g \in Gates :
                (guard[g].some /\ ~guard'[g].some) =>
                   /\ mutex'.some
                   /\ calls' = calls => mutex'.val = guard[g].val
                   /\ calls' # calls =>
                         value_order_sum(mutex'.val, now)
                            = value_order_sum(guard[g].val, now) + 1
          /\ (mutex.some /\ mutex'.some) => mutex'.val = mutex.val
          /\ \A g \in Gates :
                (~guard[g].some /\ guard'[g].some) =>
                   (mutex.some /\ guard'[g].val = mutex.val)]_vars

\* a clone has the guard, with the count an earlier guard left, after a gate
\* was dropped
C31_Witness ==
    \E g \in Gates :
        /\ guard[g].some
        /\ guard[g].val # << >>
        /\ \E h \in Gates \ {g} : gstate[h] = "dropped"
        /\ Len(calls) >= 2

\* no bucket has expired yet: the first bucket was created less than a
\* window ago
BucketsLive ==
    calls # << >> => ((now - calls[1]) \div TicksPerSec) < config.window

\* C32: a clone starts without guard and without a place in the queue and
\* the bucket map is the one of the original; while a clone holds the guard
\* of its successful check no other clone gets a guard or forwards; and as
\* long as no bucket has expired at most max requests have been forwarded.
C32_ClonesAdmitAtMostMax ==
    /\ [](BucketsLive => Len(calls) <= config.max)
    /\ [][/\ \A h \in Gates :
                (gstate[h] = "absent" /\ gstate'[h] = "live") =>
                   /\ ~guard'[h].some
                   /\ wait'[h] = "none"
                   /\ TheCache' = TheCache
          /\ \A h \in Gates :
                (guard[h].some /\ guard'[h].some) =>
                   /\ calls' = calls
                   /\ TheCache' = TheCache
                   /\ \A g \in Gates \ {h} : ~guard'[g].some]_vars

\* three clones are alive, max requests have been forwarded, and the last
\* check was rejected
C32_Witness ==
    /\ \A g \in Gates : gstate[g] = "live"
    /\ Len(calls) = config.max
    /\ BucketsLive
    /\ last.ret = "Ratelimited"
    /\ \E i, j \in Gates : i # j /\ last.gate = i

\* the keys of all entries of the bucket map, expired ones included
AllBuckets(c) == {c[i].key : i \in DOMAIN c}

\* C37 as stated: the sum of all bucket counters in the shared map is at
\* most config.max.
C37_AllCountersAtMostMax ==
    (mutex.some \/ GuardHolders # {}) =>
        CounterSum(TheCache, AllBuckets(TheCache)) <= config.max

\* C37 (amended): the sum of the counters of the buckets that have not
\* expired, which is the u16 sum of poll_ready, is at most config.max, and
\* the counter a call has just incremented is at most config.max.
C37_LiveCountersAtMostMax ==
    /\ []((mutex.some \/ GuardHolders # {}) =>
            value_order_sum(TheCache, now) <= config.max)
    /\ [][Forwards =>
            (TheCache'[1].key = BucketOf(now) /\ TheCache'[1].val <= config.max)]_vars

\* the live counters sum to max while the map still holds an expired bucket
C37_Witness ==
    /\ mutex.some
    /\ value_order_sum(TheCache, now) = config.max
    /\ CounterSum(TheCache, AllBuckets(TheCache)) > config.max

\* C21 as stated: at 61 s none of the three records is counted any more and
\* the admission check succeeds.
C21_AllThreeOutside ==
    [][(now = Secs(EndTime) /\ last' # last) =>
          /\ value_order_sum(TheCache, now) = 0
          /\ last'.ret \in InnerReady]_vars

\* C21 (amended): at 61 s the record of 0 s is no longer counted, the count
\* is at most 2, and the admission check is not Ratelimited and leaves the
\* checking gate with the guard.
C21_CheckSucceedsAgain ==
    [][(now = Secs(EndTime) /\ last' # last) =>
          /\ \A i \in DOMAIN TheCache :
                 TheCache[i].stamp = Secs(0) => ~entry_valid(TheCache[i], now)
          /\ value_order_sum(TheCache, now) <= 2
          /\ last'.ret \in InnerReady
          /\ guard'[last'.gate].some]_vars

C21_Witness ==
    /\ now = Secs(EndTime)
    /\ calls = <<Secs(0), Secs(10), Secs(20)>>
    /\ last.ret = "Ok"
    /\ guard[last.gate].some

====
